---- MODULE Spec2Model ----
(***************************************************************************)
(* Model of the transcribator bot (src/bot.py): the per-user record kept   *)
(* in the user_data table, the helpers that read-modify-write it, and the  *)
(* Telegram handlers that drive them.                                      *)
(*                                                                         *)
(* Conventions.                                                            *)
(*  - A Python dict is a function whose DOMAIN is its set of keys.         *)
(*  - A text (prompt name, prompt body, message text) is a sequence of     *)
(*    one-character strings, so that str.strip() is computed.              *)
(*  - A mode string and a callback payload are kept as the list of their   *)
(*    ':'-separated fields (what str.split(":") returns); an index field   *)
(*    is the decimal string that f"{idx}" produces and int() parses.       *)
(*  - An Optional value is a sequence of length 0 (None) or 1.             *)
(***************************************************************************)
EXTENDS Integers, Sequences, FiniteSets, TLC

\* src/bot.py:19
MAX_CUSTOM_PROMPTS == 3

\* Largest index carried by a use_custom:/delete_confirm: payload or a call.
MaxIdx == 3
\* Payload indexes range down to -MaxNeg.
MaxNeg == 1
\* Cap on the list length in the helper-level specification SpecReg.
MaxLen == 4

\* Result texts of the delivery specification span up to MaxChunks full
\* chunks plus a remainder.
MaxChunks == 2
\* Delivery attempts 1 .. MaxSendFail may fail in the delivery specification.
MaxSendFail == 4

\* The one user of the model; every operation is scoped to one user's row.
Users == {"u1"}

(***************************************************************************)
(* Texts                                                                   *)
(***************************************************************************)
SP == " "

\* Message texts a user sends (filters.TEXT & ~COMMAND & ~"change mode").
RawTexts == { <<SP>>, <<SP, "a", SP>>, <<"a">> }

RECURSIVE LStrip(_)
LStrip(s) == IF s # <<>> /\ Head(s) = SP THEN LStrip(Tail(s)) ELSE s

RECURSIVE RStrip(_)
RStrip(s) ==
    IF s # <<>> /\ s[Len(s)] = SP THEN RStrip(SubSeq(s, 1, Len(s) - 1)) ELSE s

\* Strip with the trailing whitespace left in place (lstrip for strip).
Strip_LeftOnly(s) == LStrip(s)

\* str.strip()
Strip(s) == RStrip(LStrip(s))

\* Names the helper-level specification stores in a pending action.
RegTexts == { <<>>, <<"a">> }

(***************************************************************************)
(* Integers as decimal strings: f"{idx}" and int(...)                      *)
(***************************************************************************)
DecDigits == <<"0", "1", "2", "3", "4", "5", "6", "7", "8", "9">>
NegDigits == <<"-1", "-2", "-3", "-4", "-5", "-6", "-7", "-8", "-9">>
IntRange == -9 .. 9

\* f"{n}"
IntStr(n) == IF n >= 0 THEN DecDigits[n + 1] ELSE NegDigits[-n]

\* int(s) succeeds
IsIntStr(s) == \E n \in IntRange : IntStr(n) = s

\* int(s)
ParseInt(s) == CHOOSE n \in IntRange : IntStr(n) = s

(***************************************************************************)
(* Python dict and list primitives                                         *)
(***************************************************************************)
EmptyDict == [k \in {} |-> <<>>]

HasKey(d, k) == k \in DOMAIN d

\* d[k] = v
Put(d, k, v) == [x \in DOMAIN d \cup {k} |-> IF x = k THEN v ELSE d[x]]

\* d.pop(k, None)
Pop(d, k) == [x \in DOMAIN d \ {k} |-> d[x]]

\* ListPop dropping the last element whatever the index (pop() for pop(idx)).
ListPop_Last(s, i) == SubSeq(s, 1, Len(s) - 1)

\* list.pop(i) for 0 <= i < len: the list without its element at index i
ListPop(s, i) == SubSeq(s, 1, i) \o SubSeq(s, i + 2, Len(s))

\* s[i] does not raise IndexError (Python accepts -len <= i < len)
PyIndexOk(s, i) == -Len(s) <= i /\ i < Len(s)

\* s[i]
PyIndex(s, i) == IF i >= 0 THEN s[i + 1] ELSE s[Len(s) + i + 1]

(***************************************************************************)
(* Mode strings                                                            *)
(***************************************************************************)
BuiltinModes == {"transcribe", "cosmetic"}

\* keys of MODES
ModeIds == BuiltinModes \cup {"custom_prompt"}

\* f"custom_prompt:{idx}"
CustomMode(idx) == <<"custom_prompt", IntStr(idx)>>

\* mode.startswith("custom_prompt:")
IsCustomModeStr(mode) == Len(mode) >= 2 /\ mode[1] = "custom_prompt"

\* bool(mode) for a string: the empty string is falsy
Truthy(mode) == mode # <<"">>

\* int(mode.split(":")[1])
ModeIdx(mode) == ParseInt(mode[2])

(***************************************************************************)
(* UserStateStore: load_user_data / save_user_data on the user_data table  *)
(***************************************************************************)
\* SELECT data ... ; row[0] if row else {}
load_user_data(d, u) == IF u \in DOMAIN d THEN d[u] ELSE EmptyDict

\* INSERT ... ON CONFLICT (user_id) DO UPDATE SET data = EXCLUDED.data
save_user_data(d, u, data) == [x \in DOMAIN d \cup {u} |-> IF x = u THEN data ELSE d[x]]

\* data.get("mode"): <<>> is None
get_user_mode(d, u) ==
    LET data == load_user_data(d, u)
    IN  IF HasKey(data, "mode") THEN <<data["mode"]>> ELSE <<>>

set_user_mode(d, u, mode) ==
    save_user_data(d, u, Put(load_user_data(d, u), "mode", mode))

clear_user_mode(d, u) ==
    save_user_data(d, u, Pop(load_user_data(d, u), "mode"))

\* data.get("custom_prompts", [])
get_custom_prompts(d, u) ==
    LET data == load_user_data(d, u)
    IN  IF HasKey(data, "custom_prompts") THEN data["custom_prompts"] ELSE <<>>

\* Returns the new table and the returned index.
add_custom_prompt(d, u, name, prompt) ==
    LET data  == load_user_data(d, u)
        data1 == IF HasKey(data, "custom_prompts")
                 THEN data ELSE Put(data, "custom_prompts", <<>>)
        list  == Append(data1["custom_prompts"], [name |-> name, prompt |-> prompt])
        data2 == Put(data1, "custom_prompts", list)
    IN  [db |-> save_user_data(d, u, data2), ret |-> Len(list) - 1]

\* ReindexMode without the shift of the indexes above the deleted one.
ReindexMode_NoShift(data, idx) ==
    IF HasKey(data, "mode") /\ Truthy(data["mode"]) /\ IsCustomModeStr(data["mode"])
    THEN IF ModeIdx(data["mode"]) = idx THEN Pop(data, "mode") ELSE data
    ELSE data

\* The mode left by the reindexing branch of delete_custom_prompt.
ReindexMode(data, idx) ==
    IF HasKey(data, "mode") /\ Truthy(data["mode"]) /\ IsCustomModeStr(data["mode"])
    THEN LET old_idx == ModeIdx(data["mode"])
         IN  IF old_idx = idx THEN Pop(data, "mode")
             ELSE IF old_idx > idx THEN Put(data, "mode", CustomMode(old_idx - 1))
             ELSE data
    ELSE data

\* delete_custom_prompt with the guard idx < len(prompts), so that a
\* negative index reaches list.pop and removes from the end.
delete_custom_prompt_NoLowerBound(d, u, idx) ==
    LET data    == load_user_data(d, u)
        prompts == IF HasKey(data, "custom_prompts") THEN data["custom_prompts"] ELSE <<>>
        at      == IF idx >= 0 THEN idx ELSE Len(prompts) + idx
    IN  IF idx < Len(prompts) /\ PyIndexOk(prompts, idx)
        THEN LET data1 == Put(data, "custom_prompts", ListPop(prompts, at))
             IN  [db |-> save_user_data(d, u, ReindexMode(data1, idx)), ret |-> TRUE]
        ELSE [db |-> d, ret |-> FALSE]

\* Returns the new table and the returned bool.
delete_custom_prompt(d, u, idx) ==
    LET data    == load_user_data(d, u)
        prompts == IF HasKey(data, "custom_prompts") THEN data["custom_prompts"] ELSE <<>>
    IN  IF 0 <= idx /\ idx < Len(prompts)
        THEN LET data1 == Put(data, "custom_prompts", ListPop(prompts, idx))
             IN  [db |-> save_user_data(d, u, ReindexMode(data1, idx)), ret |-> TRUE]
        ELSE [db |-> d, ret |-> FALSE]

\* data.get("pending_action"): <<>> is None
get_pending_action(d, u) ==
    LET data == load_user_data(d, u)
    IN  IF HasKey(data, "pending_action") THEN <<data["pending_action"]>> ELSE <<>>

set_pending_action(d, u, action) ==
    save_user_data(d, u, Put(load_user_data(d, u), "pending_action", action))

clear_pending_action(d, u) ==
    save_user_data(d, u, Pop(load_user_data(d, u), "pending_action"))

AwaitingName == [action |-> "awaiting_name"]
AwaitingPrompt(name) == [name |-> name, action |-> "awaiting_prompt"]

(***************************************************************************)
(* What a handler run shows to the outside: the reply, the inline keyboard *)
(* rendered, the exception it ended with ("" for none), the transcription  *)
(* calls made, the system instruction handed to the rewriting call (<<>>   *)
(* when no call was made), the reply_text attempts of result delivery, the *)
(* last state of the status message and the error notices delivered.       *)
(***************************************************************************)
Button(name, data) == [name |-> name, data |-> data]

Out(reply, name, kb, raised) ==
    [reply |-> reply, name |-> name, kb |-> kb, raised |-> raised,
     stt |-> 0, llm |-> <<>>, sends |-> <<>>, status |-> "", errs |-> 0]

NoOut == Out("", <<>>, <<>>, "")

\* One row per key of MODES, in the dict's order.
get_mode_selection_keyboard ==
    << Button(<<>>, <<"select", "transcribe">>),
       Button(<<>>, <<"select", "cosmetic">>),
       Button(<<>>, <<"select", "custom_prompt">>) >>

\* The keyboard with the create button still offered at the limit (<= for <).
get_custom_prompts_keyboard_CreateAtLimit(d, u) ==
    LET prompts == get_custom_prompts(d, u)
        uses    == [i \in 1 .. Len(prompts) |->
                        Button(<<prompts[i].name>>, <<"use_custom", IntStr(i - 1)>>)]
        create  == IF Len(prompts) <= MAX_CUSTOM_PROMPTS
                   THEN << Button(<<>>, <<"new_custom">>) >> ELSE <<>>
        delete  == IF prompts # <<>>
                   THEN << Button(<<>>, <<"delete_custom">>) >> ELSE <<>>
    IN  uses \o create \o delete

get_custom_prompts_keyboard(d, u) ==
    LET prompts == get_custom_prompts(d, u)
        uses    == [i \in 1 .. Len(prompts) |->
                        Button(<<prompts[i].name>>, <<"use_custom", IntStr(i - 1)>>)]
        create  == IF Len(prompts) < MAX_CUSTOM_PROMPTS
                   THEN << Button(<<>>, <<"new_custom">>) >> ELSE <<>>
        delete  == IF prompts # <<>>
                   THEN << Button(<<>>, <<"delete_custom">>) >> ELSE <<>>
    IN  uses \o create \o delete

\* The keyboard of the delete_custom branch.
DeleteKeyboard(prompts) ==
    [i \in 1 .. Len(prompts) |->
        Button(<<prompts[i].name>>, <<"delete_confirm", IntStr(i - 1)>>)]
    \o << Button(<<>>, <<"select", "custom_prompt">>) >>

(***************************************************************************)
(* Handlers: each returns the table it leaves and what it showed.          *)
(***************************************************************************)
\* start without the call of clear_pending_action.
start_KeepsPending(d, u) ==
    [db |-> clear_user_mode(d, u),
     out |-> Out("welcome", <<>>, get_mode_selection_keyboard, "")]

start(d, u) ==
    LET d1 == clear_user_mode(d, u)
        d2 == clear_pending_action(d1, u)
    IN  [db |-> d2, out |-> Out("welcome", <<>>, get_mode_selection_keyboard, "")]

change_mode(d, u) ==
    [db  |-> clear_pending_action(d, u),
     out |-> Out("choose_mode", <<>>, get_mode_selection_keyboard, "")]

\* callback_handler, branch query.data.startswith("select:")
CallbackSelect(d, u, p) ==
    LET new_mode == p[2]
    IN  IF new_mode = "custom_prompt"
        THEN IF get_custom_prompts(d, u) # <<>>
             THEN [db  |-> d,
                   out |-> Out("choose_custom", <<>>, get_custom_prompts_keyboard(d, u), "")]
             ELSE [db  |-> set_pending_action(d, u, AwaitingName),
                   out |-> Out("ask_name_first", <<>>, <<>>, "")]
        ELSE LET d1 == set_user_mode(d, u, <<new_mode>>)
             IN  IF new_mode \in ModeIds
                 THEN [db |-> d1, out |-> Out("mode_selected", <<>>, <<>>, "")]
                 ELSE [db |-> d1, out |-> Out("", <<>>, <<>>, "KeyError")]

\* callback_handler, branch query.data.startswith("use_custom:")
CallbackUseCustom(d, u, p) ==
    IF ~IsIntStr(p[2])
    THEN [db |-> d, out |-> Out("", <<>>, <<>>, "ValueError")]
    ELSE LET idx     == ParseInt(p[2])
             prompts == get_custom_prompts(d, u)
         IN  IF idx < Len(prompts)
             THEN LET d1 == set_user_mode(d, u, CustomMode(idx))
                  IN  IF PyIndexOk(prompts, idx)
                      THEN [db  |-> d1,
                            out |-> Out("custom_selected",
                                        <<PyIndex(prompts, idx).name>>, <<>>, "")]
                      ELSE [db |-> d1, out |-> Out("", <<>>, <<>>, "IndexError")]
             ELSE [db |-> d, out |-> Out("not_found_retry", <<>>, <<>>, "")]

\* The new_custom branch without its capacity check.
CallbackNewCustom_NoLimit(d, u) ==
    [db  |-> set_pending_action(d, u, AwaitingName),
     out |-> Out("ask_name", <<>>, <<>>, "")]

\* callback_handler, branch query.data == "new_custom"
CallbackNewCustom(d, u) ==
    IF Len(get_custom_prompts(d, u)) >= MAX_CUSTOM_PROMPTS
    THEN [db |-> d, out |-> Out("limit_reached", <<>>, <<>>, "")]
    ELSE [db  |-> set_pending_action(d, u, AwaitingName),
          out |-> Out("ask_name", <<>>, <<>>, "")]

\* callback_handler, branch query.data == "delete_custom"
CallbackDeleteCustom(d, u) ==
    LET prompts == get_custom_prompts(d, u)
    IN  IF prompts = <<>>
        THEN [db |-> d, out |-> Out("no_prompts", <<>>, <<>>, "")]
        ELSE [db |-> d, out |-> Out("which_delete", <<>>, DeleteKeyboard(prompts), "")]

\* callback_handler, branch query.data.startswith("delete_confirm:")
CallbackDeleteConfirm(d, u, p) ==
    IF ~IsIntStr(p[2])
    THEN [db |-> d, out |-> Out("", <<>>, <<>>, "ValueError")]
    ELSE LET idx     == ParseInt(p[2])
             prompts == get_custom_prompts(d, u)
         IN  IF idx < Len(prompts)
             THEN IF ~PyIndexOk(prompts, idx)
                  THEN [db |-> d, out |-> Out("", <<>>, <<>>, "IndexError")]
                  ELSE LET deleted_name == PyIndex(prompts, idx).name
                           d1 == delete_custom_prompt(d, u, idx).db
                       IN  [db  |-> d1,
                            out |-> Out(IF get_custom_prompts(d1, u) # <<>>
                                        THEN "deleted" ELSE "deleted_last",
                                        <<deleted_name>>,
                                        get_custom_prompts_keyboard(d1, u), "")]
             ELSE [db |-> d, out |-> Out("not_found", <<>>, <<>>, "")]

\* p is query.data.split(":"); "x:..." starts with "x:" iff its first of
\* at least two fields is "x".
callback_handler(d, u, p) ==
    IF Len(p) >= 2 /\ p[1] = "select" THEN CallbackSelect(d, u, p)
    ELSE IF Len(p) >= 2 /\ p[1] = "use_custom" THEN CallbackUseCustom(d, u, p)
    ELSE IF p = <<"new_custom">> THEN CallbackNewCustom(d, u)
    ELSE IF p = <<"delete_custom">> THEN CallbackDeleteCustom(d, u)
    ELSE IF Len(p) >= 2 /\ p[1] = "delete_confirm" THEN CallbackDeleteConfirm(d, u, p)
    ELSE [db |-> d, out |-> NoOut]

\* handle_text_input taking a text that arrives with no pending action for
\* the name of a new prompt.
handle_text_input_IdleIsName(d, u, raw) ==
    LET pending == get_pending_action(d, u)
        text    == Strip(raw)
    IN  IF pending = <<>> \/ pending[1].action = "awaiting_name"
        THEN [db  |-> set_pending_action(d, u, AwaitingPrompt(text)),
              out |-> Out("ask_prompt", <<text>>, <<>>, "")]
        ELSE IF pending[1].action = "awaiting_prompt"
        THEN LET name == pending[1].name
                 add  == add_custom_prompt(d, u, name, text)
                 d2   == set_user_mode(add.db, u, CustomMode(add.ret))
                 d3   == clear_pending_action(d2, u)
             IN  [db |-> d3, out |-> Out("created", <<name>>, <<>>, "")]
        ELSE [db |-> d, out |-> NoOut]

handle_text_input(d, u, raw) ==
    LET pending == get_pending_action(d, u)
    IN  IF pending = <<>>
        THEN [db |-> d, out |-> NoOut]
        ELSE LET text == Strip(raw)
             IN  IF pending[1].action = "awaiting_name"
                 THEN [db  |-> set_pending_action(d, u, AwaitingPrompt(text)),
                       out |-> Out("ask_prompt", <<text>>, <<>>, "")]
                 ELSE IF pending[1].action = "awaiting_prompt"
                 THEN LET name == pending[1].name
                          add  == add_custom_prompt(d, u, name, text)
                          d2   == set_user_mode(add.db, u, CustomMode(add.ret))
                          d3   == clear_pending_action(d2, u)
                      IN  [db |-> d3, out |-> Out("created", <<name>>, <<>>, "")]
                 ELSE [db |-> d, out |-> NoOut]

(***************************************************************************)
(* Voice messages                                                          *)
(***************************************************************************)
\* src/bot.py:494
MAX_LENGTH == 4096

Min(a, b) == IF a < b THEN a ELSE b

Instruction(kind, id, text) == [text |-> text, kind |-> kind, id |-> id]

\* The instruction process_with_llm appends to GLOBAL_INSTRUCTION, or the
\* exception raised while looking it up.
ResolveInstruction(d, u, mode) ==
    IF IsCustomModeStr(mode)
    THEN LET idx     == ModeIdx(mode)
             prompts == get_custom_prompts(d, u)
         IN  IF idx < Len(prompts)
             THEN IF PyIndexOk(prompts, idx)
                  THEN [raised |-> "",
                        instr  |-> Instruction("custom", "", PyIndex(prompts, idx).prompt)]
                  ELSE [raised |-> "IndexError", instr |-> Instruction("", "", <<>>)]
             ELSE [raised |-> "", instr |-> Instruction("default", "", <<>>)]
    ELSE IF mode[1] \in BuiltinModes
         THEN [raised |-> "", instr |-> Instruction("builtin", mode[1], <<>>)]
         ELSE [raised |-> "KeyError", instr |-> Instruction("", "", <<>>)]

\* One reply_text attempt of the slice text[lo:hi]; it is attempt number k
\* of the run and fails iff k is in F.
Attempt(lo, hi, pm, F, k) == [lo |-> lo, hi |-> hi, pm |-> pm, ok |-> k \notin F]

\* The loop advancing by MAX_LENGTH - 1 while slicing MAX_LENGTH characters.
RECURSIVE SendChunks_ShortStep(_, _, _, _, _)
SendChunks_ShortStep(n, pm, F, k, i) ==
    IF i >= n
    THEN [log |-> <<>>, raised |-> FALSE, k |-> k]
    ELSE LET hi    == Min(i + MAX_LENGTH, n)
             first == Attempt(i, hi, pm, F, k + 1)
             retry == Attempt(i, hi, "plain", F, k + 2)
         IN  IF first.ok
             THEN LET rest == SendChunks_ShortStep(n, pm, F, k + 1, i + MAX_LENGTH - 1)
                  IN  [rest EXCEPT !.log = <<first>> \o @]
             ELSE IF retry.ok
             THEN LET rest == SendChunks_ShortStep(n, pm, F, k + 2, i + MAX_LENGTH - 1)
                  IN  [rest EXCEPT !.log = <<first, retry>> \o @]
             ELSE [log |-> <<first, retry>>, raised |-> TRUE, k |-> k + 2]

\* The loop of send_long_message from offset i, after k attempts.
RECURSIVE SendChunks(_, _, _, _, _)
SendChunks(n, pm, F, k, i) ==
    IF i >= n
    THEN [log |-> <<>>, raised |-> FALSE, k |-> k]
    ELSE LET hi    == Min(i + MAX_LENGTH, n)
             first == Attempt(i, hi, pm, F, k + 1)
             retry == Attempt(i, hi, "plain", F, k + 2)
         IN  IF first.ok
             THEN LET rest == SendChunks(n, pm, F, k + 1, i + MAX_LENGTH)
                  IN  [rest EXCEPT !.log = <<first>> \o @]
             ELSE IF retry.ok
             THEN LET rest == SendChunks(n, pm, F, k + 2, i + MAX_LENGTH)
                  IN  [rest EXCEPT !.log = <<first, retry>> \o @]
             ELSE [log |-> <<first, retry>>, raised |-> TRUE, k |-> k + 2]

\* n is len(text); pm is "HTML" or "plain" (parse_mode=None).
send_long_message(n, pm, F, k) ==
    IF n <= MAX_LENGTH
    THEN LET only == Attempt(0, n, pm, F, k + 1)
         IN  [log |-> <<only>>, raised |-> ~only.ok, k |-> k + 1]
    ELSE SendChunks(n, pm, F, k, 0)

\* Lines 543-547: rich delivery, then the whole delivery again as plain text.
Deliver(n, F) ==
    LET rich == send_long_message(n, "HTML", F, 0)
    IN  IF ~rich.raised
        THEN rich
        ELSE LET plain == send_long_message(n, "plain", F, rich.k)
             IN  [plain EXCEPT !.log = rich.log \o @]

\* The except branch without the fallback to a new message when the status
\* edit is rejected.
VoiceError_NoFallback(o, status_deleted, fate) ==
    IF ~status_deleted
    THEN IF fate.errEditOk
         THEN [o EXCEPT !.reply = "error", !.status = "error", !.errs = 1]
         ELSE [o EXCEPT !.raised = "SendError"]
    ELSE IF fate.errReplyOk
    THEN [o EXCEPT !.reply = "error", !.errs = 1]
    ELSE [o EXCEPT !.raised = "SendError"]

\* The except branch of handle_voice (lines 549-556).
VoiceError(o, status_deleted, fate) ==
    IF ~status_deleted /\ fate.errEditOk
    THEN [o EXCEPT !.reply = "error", !.status = "error", !.errs = 1]
    ELSE IF fate.errReplyOk
    THEN [o EXCEPT !.reply = "error", !.errs = 1]
    ELSE [o EXCEPT !.raised = "SendError"]

\* fate says what the collaborators do during this run: the step that fails
\* before delivery (failAt), the length of the rewritten text (n), the
\* delivery attempts that fail (F) and whether the error notices get through.
\* handle_voice from the status message on (lines 522-556), mode not None.
VoiceProcess(d, u, mode, fate) ==
    LET o0 == [NoOut EXCEPT !.status = "progress"]
    IN  IF fate.failAt = "status"
        THEN [db |-> d, out |-> [NoOut EXCEPT !.raised = "SendError"]]
        ELSE IF fate.failAt \in {"download", "edit"}
        THEN [db |-> d, out |-> VoiceError(o0, FALSE, fate)]
        ELSE LET o1 == [o0 EXCEPT !.stt = 1]
                 r  == ResolveInstruction(d, u, mode)
             IN  IF fate.failAt = "transcribe" \/ r.raised # ""
                 THEN [db |-> d, out |-> VoiceError(o1, FALSE, fate)]
                 ELSE LET o2 == [o1 EXCEPT !.llm = <<r.instr>>]
                      IN  IF fate.failAt \in {"llm", "delete"}
                          THEN [db |-> d, out |-> VoiceError(o2, FALSE, fate)]
                          ELSE LET dl == Deliver(fate.n, fate.F)
                                   o3 == [o2 EXCEPT !.status = "deleted", !.sends = dl.log]
                               IN  IF dl.raised
                                   THEN [db |-> d, out |-> VoiceError(o3, TRUE, fate)]
                                   ELSE [db |-> d, out |-> [o3 EXCEPT !.reply = "result"]]

\* handle_voice with the mode test after the transcription instead of first.
handle_voice_LateGuard(d, u, fate) ==
    LET mode == get_user_mode(d, u)
    IN  IF mode = <<>>
        THEN [db  |-> d,
              out |-> [Out("choose_mode_first", <<>>, get_mode_selection_keyboard, "")
                          EXCEPT !.stt = 1]]
        ELSE VoiceProcess(d, u, mode[1], fate)

handle_voice(d, u, fate) ==
    LET mode == get_user_mode(d, u)
    IN  IF mode = <<>>
        THEN [db  |-> d,
              out |-> Out("choose_mode_first", <<>>, get_mode_selection_keyboard, "")]
        ELSE VoiceProcess(d, u, mode[1], fate)

(***************************************************************************)
(* State                                                                   *)
(*   db   the user_data table: user id -> the user's JSON document         *)
(*   ev   the last event handled (or helper called) and its argument       *)
(*   pre  the table as it was when that event arrived                      *)
(*   out  what the handler showed                                          *)
(*   ret  the value a helper call returned (<<>> for none)                 *)
(*   runs the handler runs in flight when handlers are followed store call *)
(*        by store call (<<>> when they are taken whole)                   *)
(*   shown the inline keyboard of an earlier message that is still on the  *)
(*        user's screen (<<>> when none is followed)                       *)
(***************************************************************************)
VARIABLES db, ev, pre, out, ret, runs, shown

vars == <<db, ev, pre, out, ret, runs, shown>>

Event(kind, arg) == [kind |-> kind, arg |-> arg]

Init ==
    /\ db = [x \in {} |-> EmptyDict]
    /\ ev = Event("init", <<>>)
    /\ pre = db
    /\ out = NoOut
    /\ ret = <<>>
    /\ runs = <<>>
    /\ shown = <<>>

\* A handler run from arrival to return, with every store call it makes.
Handled(kind, arg, res) ==
    /\ db' = res.db
    /\ ev' = Event(kind, arg)
    /\ pre' = db
    /\ out' = res.out
    /\ ret' = <<>>
    /\ runs' = runs
    /\ shown' = shown

\* Index fields of button payloads: in range, past the end, negative, and
\* one that is no integer.
IdxFields == { IntStr(i) : i \in (-MaxNeg) .. MaxIdx } \cup {"x"}

Payloads ==
    { <<"select", m>> : m \in ModeIds \cup {"foo"} }
    \cup { <<"use_custom", f>> : f \in IdxFields }
    \cup { <<"delete_confirm", f>> : f \in IdxFields }
    \cup { <<"new_custom">>, <<"delete_custom">>, <<"bogus">> }

Fate(failAt, n, F, errEditOk, errReplyOk) ==
    [n |-> n, F |-> F, errEditOk |-> errEditOk, errReplyOk |-> errReplyOk, failAt |-> failAt]

VoiceFates ==
    { Fate(f, 1, {}, TRUE, TRUE) :
        f \in {"status", "download", "edit", "transcribe", "llm", "delete"} }
    \cup { Fate("download", 1, {}, FALSE, r) : r \in BOOLEAN }
    \cup { Fate("none", n, F, TRUE, TRUE) :
        n \in {1, MAX_LENGTH + 1}, F \in {{}, {1}, {1, 2}} }
    \cup { Fate("none", MAX_LENGTH + 1, {1, 2, 3, 4}, TRUE, r) : r \in BOOLEAN }

Start == \E u \in Users : Handled("start", <<>>, start(db, u))

ChangeMode == \E u \in Users : Handled("change_mode", <<>>, change_mode(db, u))

Callback ==
    \E u \in Users, p \in Payloads : Handled("callback", p, callback_handler(db, u, p))

Text ==
    \E u \in Users, raw \in RawTexts : Handled("text", raw, handle_text_input(db, u, raw))

Voice ==
    \E u \in Users, fate \in VoiceFates : Handled("voice", fate, handle_voice(db, u, fate))

Next == Start \/ ChangeMode \/ Callback \/ Text \/ Voice

\* Events of one user handled one after the other, the store never failing.
Spec == Init /\ [][Next]_vars

(***************************************************************************)
(* Helper-level specification: the record helpers called directly, in any  *)
(* order and with any argument, from the default record.                   *)
(***************************************************************************)
Called(name, arg, d, r) ==
    /\ db' = d
    /\ ev' = Event(name, arg)
    /\ pre' = db
    /\ out' = NoOut
    /\ ret' = r
    /\ runs' = runs
    /\ shown' = shown

RegIdx == (-MaxNeg) .. MaxIdx

RegModes == { <<m>> : m \in BuiltinModes } \cup { CustomMode(i) : i \in RegIdx }

RegPending == {AwaitingName} \cup { AwaitingPrompt(t) : t \in RegTexts }

RegSetMode ==
    \E u \in Users, m \in RegModes :
        Called("set_user_mode", m, set_user_mode(db, u, m), <<>>)

RegClearMode ==
    \E u \in Users : Called("clear_user_mode", <<>>, clear_user_mode(db, u), <<>>)

\* The (name, prompt) pairs add_custom_prompt is called with.
RegPrompts == { <<<<>>, <<>>>>, <<<<"a">>, <<>>>>, <<<<>>, <<"a">>>> }

RegAdd ==
    \E u \in Users, np \in RegPrompts :
        /\ Len(get_custom_prompts(db, u)) < MaxLen
        /\ LET r == add_custom_prompt(db, u, np[1], np[2])
           IN  Called("add_custom_prompt", np, r.db, <<r.ret>>)

RegDelete ==
    \E u \in Users, idx \in RegIdx :
        LET r == delete_custom_prompt(db, u, idx)
        IN  Called("delete_custom_prompt", idx, r.db, <<r.ret>>)

RegSetPending ==
    \E u \in Users, a \in RegPending :
        Called("set_pending_action", a, set_pending_action(db, u, a), <<>>)

RegClearPending ==
    \E u \in Users : Called("clear_pending_action", <<>>, clear_pending_action(db, u), <<>>)

NextReg ==
    RegSetMode \/ RegClearMode \/ RegAdd \/ RegDelete \/ RegSetPending \/ RegClearPending

SpecReg == Init /\ [][NextReg]_vars

(***************************************************************************)
(* Delivery specification: send_long_message, and the delivery block of    *)
(* handle_voice, applied to result texts of every length of SendLens under *)
(* every pattern of failing reply_text attempts.                           *)
(***************************************************************************)
SendLens ==
    { c * MAX_LENGTH + r : c \in 0 .. MaxChunks, r \in {0, 1, MAX_LENGTH - 1} }

SendFails == SUBSET (1 .. MaxSendFail)

Sent(name, arg, r) ==
    /\ db' = db
    /\ ev' = Event(name, arg)
    /\ pre' = db
    /\ out' = [NoOut EXCEPT !.sends = r.log,
                            !.raised = IF r.raised THEN "SendError" ELSE ""]
    /\ ret' = <<>>
    /\ runs' = runs
    /\ shown' = shown

SendLong ==
    \E n \in SendLens, pm \in {"HTML", "plain"}, F \in SendFails :
        Sent("send_long_message", [n |-> n, pm |-> pm, F |-> F],
             send_long_message(n, pm, F, 0))

SendDeliver ==
    \E n \in SendLens, F \in SendFails :
        Sent("deliver", [n |-> n, pm |-> "HTML", F |-> F], Deliver(n, F))

NextSend == SendLong \/ SendDeliver

SpecSend == Init /\ [][NextSend]_vars

(***************************************************************************)
(* Handlers followed store call by store call.  Every record helper is a   *)
(* load_user_data, a change of the loaded document and, for the writing    *)
(* helpers, a save_user_data of the whole document; nothing ties the two   *)
(* together, and a handler makes several such calls in a row.  A run is    *)
(* one handler on its way through its calls:                               *)
(*   e      the event being handled, u the user                            *)
(*   todo   the store calls still to make, as far as they are known        *)
(*   saving TRUE between the load and the save of a writing helper         *)
(*   data   the document that save will write                              *)
(*   st     "run", "done" (returned) or "failed" (a store call raised)     *)
(*   mode   voice: the mode read on arrival; at: the table it was read     *)
(*          from; llm: the instruction handed to the rewriting call        *)
(***************************************************************************)
Call(f, a, k) == [k |-> k, a |-> a, f |-> f]

\* Helper call c on the table d as loaded: the table with the document the
\* helper would save, whether it saves, and what it returns.
CallEffect(c, d, u) ==
    CASE c.f = "get_user_mode" ->
            [db |-> d, writes |-> FALSE, ret |-> get_user_mode(d, u)]
      [] c.f = "set_user_mode" ->
            [db |-> set_user_mode(d, u, c.a), writes |-> TRUE, ret |-> <<>>]
      [] c.f = "clear_user_mode" ->
            [db |-> clear_user_mode(d, u), writes |-> TRUE, ret |-> <<>>]
      [] c.f = "get_custom_prompts" ->
            [db |-> d, writes |-> FALSE, ret |-> get_custom_prompts(d, u)]
      [] c.f = "add_custom_prompt" ->
            LET r == add_custom_prompt(d, u, c.a.name, c.a.prompt)
            IN  [db |-> r.db, writes |-> TRUE, ret |-> r.ret]
      [] c.f = "delete_custom_prompt" ->
            LET r == delete_custom_prompt(d, u, c.a)
            IN  [db |-> r.db, writes |-> r.ret, ret |-> r.ret]
      [] c.f = "get_pending_action" ->
            [db |-> d, writes |-> FALSE, ret |-> get_pending_action(d, u)]
      [] c.f = "set_pending_action" ->
            [db |-> set_pending_action(d, u, c.a), writes |-> TRUE, ret |-> <<>>]
      [] c.f = "clear_pending_action" ->
            [db |-> clear_pending_action(d, u), writes |-> TRUE, ret |-> <<>>]

\* The store calls a handler makes before any of them has returned.
FirstCalls(e) ==
    IF e.kind = "start"
    THEN << Call("clear_user_mode", <<>>, ""), Call("clear_pending_action", <<>>, "") >>
    ELSE IF e.kind = "change_mode"
    THEN << Call("clear_pending_action", <<>>, "") >>
    ELSE IF e.kind = "text"
    THEN << Call("get_pending_action", <<>>, "pending") >>
    ELSE IF e.kind = "voice"
    THEN << Call("get_user_mode", <<>>, "mode") >>
    ELSE LET p == e.arg
         IN  IF Len(p) >= 2 /\ p[1] = "select"
             THEN IF p[2] = "custom_prompt"
                  THEN << Call("get_custom_prompts", <<>>, "select") >>
                  ELSE << Call("set_user_mode", <<p[2]>>, "") >>
             ELSE IF Len(p) >= 2 /\ p[1] \in {"use_custom", "delete_confirm"}
             THEN IF IsIntStr(p[2])
                  THEN << Call("get_custom_prompts", <<>>, p[1]) >>
                  ELSE <<>>
             ELSE IF p = <<"new_custom">>
             THEN << Call("get_custom_prompts", <<>>, "new_custom") >>
             ELSE IF p = <<"delete_custom">>
             THEN << Call("get_custom_prompts", <<>>, "") >>
             ELSE <<>>

\* The store calls the handler of e makes next, once call c returned r.
NextCalls(e, c, r) ==
    CASE c.k = "pending" ->
            IF r = <<>>
            THEN <<>>
            ELSE IF r[1].action = "awaiting_name"
            THEN << Call("set_pending_action", AwaitingPrompt(Strip(e.arg)), "") >>
            ELSE IF r[1].action = "awaiting_prompt"
            THEN << Call("add_custom_prompt",
                         [name |-> r[1].name, prompt |-> Strip(e.arg)], "added") >>
            ELSE <<>>
      [] c.k = "added" ->
            << Call("set_user_mode", CustomMode(r), ""),
               Call("clear_pending_action", <<>>, ""),
               Call("get_custom_prompts", <<>>, "") >>
      [] c.k = "mode" ->
            IF r # <<>> /\ IsCustomModeStr(r[1])
            THEN << Call("get_custom_prompts", <<>>, "resolve") >>
            ELSE <<>>
      [] c.k = "select" ->
            IF r # <<>>
            THEN << Call("get_custom_prompts", <<>>, "") >>
            ELSE << Call("set_pending_action", AwaitingName, "") >>
      [] c.k = "use_custom" ->
            IF ParseInt(e.arg[2]) < Len(r)
            THEN << Call("set_user_mode", CustomMode(ParseInt(e.arg[2])), "") >>
            ELSE <<>>
      [] c.k = "new_custom" ->
            IF Len(r) >= MAX_CUSTOM_PROMPTS
            THEN <<>>
            ELSE << Call("set_pending_action", AwaitingName, "") >>
      [] c.k = "delete_confirm" ->
            IF ParseInt(e.arg[2]) < Len(r) /\ PyIndexOk(r, ParseInt(e.arg[2]))
            THEN << Call("delete_custom_prompt", ParseInt(e.arg[2]), ""),
                    Call("get_custom_prompts", <<>>, ""),
                    Call("get_custom_prompts", <<>>, "") >>
            ELSE <<>>
      [] OTHER -> <<>>

Run(e, u) ==
    [mode |-> <<>>, u |-> u, data |-> EmptyDict, at |-> EmptyDict, llm |-> <<>>,
     e |-> e, todo |-> FirstCalls(e), saving |-> FALSE,
     st |-> IF FirstCalls(e) = <<>> THEN "done" ELSE "run"]

\* What handle_voice keeps of its reads: the mode on arrival (line 512) and
\* the instruction process_with_llm builds (lines 204-214).
Noted(r, c, got) ==
    IF c.k = "mode"
    THEN IF got # <<>> /\ ~IsCustomModeStr(got[1])
              /\ ResolveInstruction(db, r.u, got[1]).raised = ""
         THEN [r EXCEPT !.mode = got, !.at = db,
                        !.llm = <<ResolveInstruction(db, r.u, got[1]).instr>>]
         ELSE [r EXCEPT !.mode = got, !.at = db]
    ELSE IF c.k = "resolve" /\ ResolveInstruction(db, r.u, r.mode[1]).raised = ""
    THEN [r EXCEPT !.llm = <<ResolveInstruction(db, r.u, r.mode[1]).instr>>]
    ELSE r

\* load_user_data of the next call of run i, and what the helper makes of it.
LoadStep(i) ==
    LET r     == runs[i]
        c     == Head(r.todo)
        eff   == CallEffect(c, db, r.u)
        todo2 == NextCalls(r.e, c, eff.ret) \o Tail(r.todo)
        r2    == Noted(r, c, eff.ret)
    IN  /\ r.st = "run"
        /\ ~r.saving
        /\ runs' = [runs EXCEPT ![i] =
                      IF eff.writes
                      THEN [r2 EXCEPT !.todo = todo2, !.saving = TRUE,
                                      !.data = load_user_data(eff.db, r.u)]
                      ELSE [r2 EXCEPT !.todo = todo2,
                                      !.st = IF todo2 = <<>> THEN "done" ELSE "run"]]
        /\ UNCHANGED <<db, ev, pre, out, ret, shown>>

\* save_user_data of the document run i loaded and changed.
SaveStep(i) ==
    LET r == runs[i]
    IN  /\ r.st = "run"
        /\ r.saving
        /\ db' = save_user_data(db, r.u, r.data)
        /\ runs' = [runs EXCEPT ![i] =
                      [r EXCEPT !.saving = FALSE, !.data = EmptyDict,
                                !.st = IF r.todo = <<>> THEN "done" ELSE "run"]]
        /\ UNCHANGED <<ev, pre, out, ret, shown>>

\* The load or save run i is about to make raises; the exception ends the
\* handler and nothing is written.
FailStep(i) ==
    LET r == runs[i]
    IN  /\ r.st = "run"
        /\ runs' = [runs EXCEPT ![i] =
                      [r EXCEPT !.st = "failed", !.saving = FALSE, !.data = EmptyDict]]
        /\ UNCHANGED <<db, ev, pre, out, ret, shown>>

\* The handler of event e taken whole.
Handle(d, u, e) ==
    CASE e.kind = "start" -> start(d, u).db
      [] e.kind = "change_mode" -> change_mode(d, u).db
      [] e.kind = "callback" -> callback_handler(d, u, e.arg).db
      [] e.kind = "text" -> handle_text_input(d, u, e.arg).db
      [] e.kind = "voice" -> handle_voice(d, u, e.arg).db

Press(p) == Event("callback", p)
Type(raw) == Event("text", raw)
Speak == Event("voice", Fate("none", 1, {}, TRUE, TRUE))

\* A user creating three prompts and picking modes in between: the events
\* that were handled before the runs followed step by step arrive.
Story ==
    << Press(<<"new_custom">>), Type(<<"a">>), Type(<<"a">>),
       Press(<<"new_custom">>), Type(<<"a">>), Type(<<SP>>),
       Press(<<"use_custom", "0">>),
       Press(<<"new_custom">>), Type(<<"a">>), Type(<<"a">>),
       Press(<<"select", "transcribe">>) >>

StepEvents ==
    { Event("start", <<>>), Event("change_mode", <<>>), Speak }
    \cup { Type(raw) : raw \in { <<"a">>, <<SP>> } }
    \cup { Press(p) : p \in { <<"select", "transcribe">>, <<"select", "custom_prompt">>,
                              <<"new_custom">>, <<"delete_custom">>,
                              <<"use_custom", "0">>, <<"use_custom", "1">>,
                              <<"delete_confirm", "0">>, <<"delete_confirm", "1">> } }

\* Event n of Story handled whole, after the n - 1 events before it: the
\* history of the record before the runs that are followed step by step.
Serial(n) ==
    /\ runs = <<>>
    /\ \/ ev.kind = "init" /\ n = 1
       \/ ev.kind = "serial" /\ n = ev.arg + 1
    /\ \E u \in Users : db' = Handle(db, u, Story[n])
    /\ ev' = Event("serial", n)
    /\ pre' = db
    /\ out' = NoOut
    /\ ret' = <<>>
    /\ runs' = runs
    /\ shown' = shown

Earlier == \E n \in 1 .. Len(Story) : Serial(n)

Arrived(rs) ==
    /\ runs = <<>>
    /\ runs' = rs
    /\ shown' = shown
    /\ ev' = Event("arrive", <<>>)
    /\ pre' = db
    /\ out' = NoOut
    /\ ret' = <<>>
    /\ db' = db

\* One event arrives and is handled alone.
Arrive1 == \E u \in Users, e \in StepEvents : Arrived(<<Run(e, u)>>)

\* Two events of one user arrive and are handled with overlap.
Arrive2 == \E u \in Users, e1 \in StepEvents, e2 \in StepEvents :
               Arrived(<<Run(e1, u), Run(e2, u)>>)

Load == \E i \in DOMAIN runs : LoadStep(i)

Save == \E i \in DOMAIN runs : SaveStep(i)

Fail == \E i \in DOMAIN runs : FailStep(i)

\* One handler at a time, any one of its store calls may raise.
NextFail == Earlier \/ Arrive1 \/ Load \/ Save \/ Fail

SpecFail == Init /\ [][NextFail]_vars

\* Two handlers of one user at a time, the store never fails.
NextOverlap == Earlier \/ Arrive2 \/ Load \/ Save

SpecOverlap == Init /\ [][NextOverlap]_vars

(***************************************************************************)
(* Buttons of earlier messages.  An inline keyboard stays on the screen    *)
(* until its message is edited, so a button can be pressed long after the  *)
(* table it was rendered from has changed.  shown follows the keyboard of  *)
(* one such message; pressing one of its buttons edits that message.       *)
(***************************************************************************)
\* A button whose callback_data carries a prompt index.
IsIndexButton(b) ==
    /\ Len(b.data) = 2
    /\ b.data[1] \in {"use_custom", "delete_confirm"}

HasIndexButton(kb) == \E k \in DOMAIN kb : IsIndexButton(kb[k])

\* A handler run whose message, if it shows sh, is the one followed.
Watched(kind, arg, res, sh) ==
    /\ db' = res.db
    /\ ev' = Event(kind, arg)
    /\ pre' = db
    /\ out' = res.out
    /\ ret' = <<>>
    /\ runs' = runs
    /\ shown' = sh

ScreenPayloads ==
    { <<"select", "custom_prompt">>, <<"new_custom">>, <<"delete_custom">>,
      <<"use_custom", "0">>, <<"delete_confirm", "0">>, <<"delete_confirm", "1">> }

\* A button of the current message is pressed; the keyboard it answers
\* with may become the one followed.
ScreenPress ==
    \E u \in Users, p \in ScreenPayloads :
        LET res == callback_handler(db, u, p)
        IN  \E sh \in {shown} \cup
                      (IF shown = <<>> /\ HasIndexButton(res.out.kb)
                       THEN {res.out.kb} ELSE {}) :
                Watched("callback", p, res, sh)

ScreenText ==
    \E u \in Users, raw \in RawTexts :
        Watched("text", raw, handle_text_input(db, u, raw), shown)

\* An index button of the followed keyboard is pressed.
OldPress ==
    \E u \in Users, k \in DOMAIN shown :
        /\ IsIndexButton(shown[k])
        /\ Watched("old_button", shown[k], callback_handler(db, u, shown[k].data), <<>>)

NextScreen == ScreenPress \/ ScreenText \/ OldPress

SpecScreen == Init /\ [][NextScreen]_vars

(***************************************************************************)
(* Properties                                                              *)
(***************************************************************************)
ModeOf(d, u) == get_user_mode(d, u)
PromptsOf(d, u) == get_custom_prompts(d, u)
PendingOf(d, u) == get_pending_action(d, u)

\* The last step was delete_custom_prompt(u, i) with i a valid index.
ValidDelete(u) ==
    /\ ev.kind = "delete_custom_prompt"
    /\ 0 <= ev.arg
    /\ ev.arg < Len(PromptsOf(pre, u))

C2_CustomModeInBounds ==
    \A u \in Users : \A j \in IntRange :
        (ModeOf(db, u) = <<CustomMode(j)>>) =>
            (0 <= j /\ j < Len(PromptsOf(db, u)))

\* C3. add_custom_prompt called for a user who already has
\* MAX_CUSTOM_PROMPTS prompts fails and leaves the sequence unchanged.
C3_AddAtCapacityFails ==
    \A u \in Users :
        (ev.kind = "add_custom_prompt" /\ Len(PromptsOf(pre, u)) = MAX_CUSTOM_PROMPTS)
            => (ret = <<>> /\ PromptsOf(db, u) = PromptsOf(pre, u))

\* C4. Under serial events with no store failure, the number of persisted
\* custom prompts of a user stays between 0 and MAX_CUSTOM_PROMPTS.
C4_PromptCountBounded ==
    \A u \in Users :
        Len(PromptsOf(db, u)) >= 0 /\ Len(PromptsOf(db, u)) <= MAX_CUSTOM_PROMPTS

\* new_custom pressed while the user holds MAX_CUSTOM_PROMPTS prompts.
C4_Witness ==
    \E u \in Users :
        /\ ev.kind = "callback"
        /\ ev.arg = <<"new_custom">>
        /\ Len(PromptsOf(pre, u)) = MAX_CUSTOM_PROMPTS
        /\ Len(PromptsOf(db, u)) = MAX_CUSTOM_PROMPTS
        /\ out.reply = "limit_reached"

\* C5. After delete_custom_prompt(user, i) with a valid i the list is one
\* shorter and is the previous list without its element at position i: the
\* other prompts keep their order and their contents.
C5_DeleteRemovesExactlyOne ==
    \A u \in Users :
        ValidDelete(u) =>
            LET i   == ev.arg
                old == PromptsOf(pre, u)
                new == PromptsOf(db, u)
            IN  /\ Len(new) = Len(old) - 1
                /\ \A k \in 1 .. Len(new) :
                       new[k] = IF k <= i THEN old[k] ELSE old[k + 1]

\* The middle one of three prompts, different from its neighbours, deleted.
C5_Witness ==
    \E u \in Users :
        /\ ValidDelete(u)
        /\ ev.arg = 1
        /\ Len(PromptsOf(pre, u)) = MAX_CUSTOM_PROMPTS
        /\ PromptsOf(pre, u)[2] # PromptsOf(pre, u)[1]
        /\ PromptsOf(pre, u)[2] # PromptsOf(pre, u)[3]
        /\ PromptsOf(pre, u)[1] # PromptsOf(pre, u)[3]
        /\ ret = <<TRUE>>

\* C6. delete_custom_prompt(user, idx) with idx < 0 or idx >= number of
\* prompts returns false and changes neither the mode, nor the prompts, nor
\* the pending action.
C6_OutOfBoundsDeleteIsNoOp ==
    \A u \in Users :
        (/\ ev.kind = "delete_custom_prompt"
         /\ (ev.arg < 0 \/ ev.arg >= Len(PromptsOf(pre, u))))
            => /\ ret = <<FALSE>>
               /\ ModeOf(db, u) = ModeOf(pre, u)
               /\ PromptsOf(db, u) = PromptsOf(pre, u)
               /\ PendingOf(db, u) = PendingOf(pre, u)

\* A negative index against a list of at least two prompts, with a custom
\* mode and a pending action in place.
C6_Witness ==
    \E u \in Users :
        /\ ev.kind = "delete_custom_prompt"
        /\ ev.arg < 0
        /\ Len(PromptsOf(pre, u)) >= 2
        /\ ModeOf(pre, u) = <<CustomMode(1)>>
        /\ PendingOf(pre, u) # <<>>
        /\ ret = <<FALSE>>

\* What trimming leaves of each message text of RawTexts.
Trimmed(raw) ==
    CASE raw = <<SP>> -> <<>>
      [] raw = <<SP, "a", SP>> -> <<"a">>
      [] raw = <<"a">> -> <<"a">>

\* C7. Pending-action round trip: in AwaitingName a text t1 leads to
\* AwaitingPromptBody{name = trim(t1)} with mode and prompts unchanged; in
\* AwaitingPromptBody{name}, with k < MAX_CUSTOM_PROMPTS prompts, a text t2
\* appends {name, trim(t2)} as the last prompt, sets the mode to Custom(k)
\* and clears the pending action. Empty trimmed texts are accepted.
C7_PendingRoundTrip ==
    \A u \in Users :
        (ev.kind = "text") =>
            LET p == PendingOf(pre, u)
                k == Len(PromptsOf(pre, u))
                t == Trimmed(ev.arg)
            IN  /\ (p # <<>> /\ p[1].action = "awaiting_name") =>
                       /\ PendingOf(db, u) = <<[action |-> "awaiting_prompt", name |-> t]>>
                       /\ ModeOf(db, u) = ModeOf(pre, u)
                       /\ PromptsOf(db, u) = PromptsOf(pre, u)
                /\ (p # <<>> /\ p[1].action = "awaiting_prompt" /\ k < MAX_CUSTOM_PROMPTS) =>
                       /\ PromptsOf(db, u) =
                              PromptsOf(pre, u) \o <<[name |-> p[1].name, prompt |-> t]>>
                       /\ ModeOf(db, u) = <<CustomMode(k)>>
                       /\ PendingOf(db, u) = <<>>

\* The second step taken with an empty name and an empty body, as the
\* second prompt of the user.
C7_Witness ==
    \E u \in Users :
        /\ ev.kind = "text"
        /\ ev.arg = <<SP>>
        /\ PendingOf(pre, u) = <<[action |-> "awaiting_prompt", name |-> <<>>]>>
        /\ Len(PromptsOf(pre, u)) = 1
        /\ PromptsOf(db, u)[2] = [name |-> <<>>, prompt |-> <<>>]
        /\ ModeOf(db, u) = <<CustomMode(1)>>
        /\ PendingOf(db, u) = <<>>

\* The last event switched the mode: the change-mode button, select:<a
\* built-in mode>, or use_custom:i with a valid i.
ModeSwitch(u) ==
    \/ ev.kind = "change_mode"
    \/ /\ ev.kind = "callback"
       /\ Len(ev.arg) = 2
       /\ \/ ev.arg[1] = "select" /\ ev.arg[2] \in BuiltinModes
          \/ /\ ev.arg[1] = "use_custom"
             /\ IsIntStr(ev.arg[2])
             /\ 0 <= ParseInt(ev.arg[2])
             /\ ParseInt(ev.arg[2]) < Len(PromptsOf(pre, u))

\* C8. Every mode switch (change-mode button, select:<builtin>,
\* use_custom:i with a valid i) leaves the pending action idle, whatever it
\* was before.
C8_ModeSwitchClearsPending ==
    \A u \in Users : ModeSwitch(u) => PendingOf(db, u) = <<>>

\* C9. After /start the mode is none, the pending action is idle and the
\* custom prompts are unchanged.
C9_StartResets ==
    \A u \in Users :
        (ev.kind = "start") =>
            /\ ModeOf(db, u) = <<>>
            /\ PendingOf(db, u) = <<>>
            /\ PromptsOf(db, u) = PromptsOf(pre, u)

\* /start arrived with a custom mode selected and a creation in progress.
C9_Witness ==
    \E u \in Users :
        /\ ev.kind = "start"
        /\ ModeOf(pre, u) = <<CustomMode(1)>>
        /\ PendingOf(pre, u) # <<>>
        /\ PromptsOf(pre, u) # <<>>
        /\ ModeOf(db, u) = <<>>

\* C10. Voice guard: a voice message arriving with mode none makes no
\* transcription call and no rewriting call, redirects the user to mode
\* selection and leaves the record unchanged; transcription and rewriting
\* happen only for voice messages that arrive with a mode set.
C10_VoiceGuard ==
    \A u \in Users :
        /\ (ev.kind = "voice" /\ ModeOf(pre, u) = <<>>) =>
               /\ out.stt = 0
               /\ out.llm = <<>>
               /\ out.reply = "choose_mode_first"
               /\ out.kb = get_mode_selection_keyboard
               /\ db = pre
        /\ (out.stt > 0 \/ out.llm # <<>>) =>
               (ev.kind = "voice" /\ ModeOf(pre, u) # <<>>)

\* A voice message arrived with mode none for a user who has prompts.
C10_Witness ==
    \E u \in Users :
        /\ ev.kind = "voice"
        /\ ModeOf(pre, u) = <<>>
        /\ PromptsOf(pre, u) # <<>>
        /\ out.reply = "choose_mode_first"

\* The attempts of a log that got through.
AttemptOk(a) == a.ok
Delivered(log) == SelectSeq(log, AttemptOk)

\* The slices of log, in order, are text[0:n] cut into consecutive pieces.
Tiles(log, n) ==
    /\ Len(log) >= 1
    /\ log[1].lo = 0
    /\ log[Len(log)].hi = n
    /\ \A k \in 1 .. Len(log) - 1 : log[k + 1].lo = log[k].hi

\* C11. Chunking law: when send_long_message returns, the chunks it
\* delivered, concatenated in sending order, are the text; every chunk it
\* tried has length <= MAX_LENGTH; no chunk is empty unless the text is
\* empty, in which case exactly one empty chunk is sent.
C11_ChunkingLaw ==
    (ev.kind = "send_long_message") =>
        /\ (out.raised = "") => Tiles(Delivered(out.sends), ev.arg.n)
        /\ \A k \in 1 .. Len(out.sends) :
               /\ out.sends[k].hi - out.sends[k].lo <= MAX_LENGTH
               /\ (ev.arg.n > 0) => out.sends[k].hi > out.sends[k].lo
        /\ (ev.arg.n = 0) =>
               (Len(out.sends) = 1 /\ out.sends[1].lo = 0 /\ out.sends[1].hi = 0)

\* A text of two full chunks and one character delivered in three chunks,
\* one of them on its plain retry.
C11_Witness ==
    /\ ev.kind = "send_long_message"
    /\ ev.arg.n = 2 * MAX_LENGTH + 1
    /\ out.raised = ""
    /\ Len(Delivered(out.sends)) = 3
    /\ Len(out.sends) = 4
    /\ Delivered(out.sends)[3].hi - Delivered(out.sends)[3].lo = 1

\* Mode, prompts and pending action of u are the same in d1 and d2.
SameRecord(d1, d2, u) ==
    /\ ModeOf(d1, u) = ModeOf(d2, u)
    /\ PromptsOf(d1, u) = PromptsOf(d2, u)
    /\ PendingOf(d1, u) = PendingOf(d2, u)

\* C12. With MAX_CUSTOM_PROMPTS prompts stored, selecting the custom-prompt
\* category shows the selection list without a create-new button and starts
\* no creation, and new_custom reports the limit; both leave pending action,
\* mode and prompts unchanged. Below the limit new_custom sets the pending
\* action to AwaitingName.
C12_CreationOnlyBelowCapacity ==
    \A u \in Users :
        (ev.kind = "callback") =>
            LET full == Len(PromptsOf(pre, u)) = MAX_CUSTOM_PROMPTS
            IN  /\ (ev.arg = <<"select", "custom_prompt">> /\ full) =>
                       /\ out.reply = "choose_custom"
                       /\ \A k \in 1 .. Len(out.kb) : out.kb[k].data # <<"new_custom">>
                       /\ SameRecord(db, pre, u)
                /\ (ev.arg = <<"new_custom">> /\ full) =>
                       /\ out.reply = "limit_reached"
                       /\ SameRecord(db, pre, u)
                /\ (/\ ev.arg = <<"new_custom">>
                    /\ Len(PromptsOf(pre, u)) < MAX_CUSTOM_PROMPTS) =>
                       PendingOf(db, u) = <<[action |-> "awaiting_name"]>>

\* The custom-prompt category selected with MAX_CUSTOM_PROMPTS prompts
\* stored: the list shows the three prompts and the delete button.
C12_Witness ==
    \E u \in Users :
        /\ ev.kind = "callback"
        /\ ev.arg = <<"select", "custom_prompt">>
        /\ Len(PromptsOf(pre, u)) = MAX_CUSTOM_PROMPTS
        /\ out.reply = "choose_custom"
        /\ Len(out.kb) = MAX_CUSTOM_PROMPTS + 1
        /\ out.kb[1].data = <<"use_custom", "0">>

\* The last event was a use_custom:<integer> button press.
UseCustomInt ==
    /\ ev.kind = "callback"
    /\ Len(ev.arg) = 2
    /\ ev.arg[1] = "use_custom"
    /\ IsIntStr(ev.arg[2])

\* C13. For every integer i of a use_custom:i press, the mode becomes
\* Custom(i) if and only if 0 <= i < number of prompts; otherwise an error
\* is reported and the persisted mode is unchanged.
C13_UseCustomValidatesIndex ==
    \A u \in Users :
        UseCustomInt =>
            LET i     == ParseInt(ev.arg[2])
                valid == 0 <= i /\ i < Len(PromptsOf(pre, u))
            IN  /\ valid => ModeOf(db, u) = <<CustomMode(i)>>
                /\ ~valid => /\ ModeOf(db, u) = ModeOf(pre, u)
                             /\ out.reply = "not_found_retry"

\* The last event was a button press whose payload is unknown or malformed.
MalformedPayload ==
    /\ ev.kind = "callback"
    /\ \/ ev.arg[1] \notin {"select", "use_custom", "new_custom",
                            "delete_custom", "delete_confirm"}
       \/ Len(ev.arg) = 2 /\ ev.arg[1] = "select" /\ ev.arg[2] \notin ModeIds
       \/ /\ Len(ev.arg) = 2
          /\ ev.arg[1] \in {"use_custom", "delete_confirm"}
          /\ ~IsIntStr(ev.arg[2])

\* C14. An unknown or malformed button payload makes the handler answer
\* with an error response without raising, and leaves mode, prompts and
\* pending action unchanged.
C14_MalformedPayloadIsNoOp ==
    \A u \in Users :
        MalformedPayload =>
            /\ out.raised = ""
            /\ out.reply # ""
            /\ SameRecord(db, pre, u)

\* The attempts of log that sent the chunk starting at offset lo, in order.
AttemptsOf(log, lo) ==
    LET SameChunk(a) == a.lo = lo
    IN  SelectSeq(log, SameChunk)

\* C15. While one result is delivered, each chunk is attempted first with
\* HTML formatting, retried once as plain text if that is rejected, and never
\* attempted again (at most two attempts per chunk); a chunk whose plain
\* retry fails is reported with an error notice (when the platform accepts
\* the notice).
C15_RetryPolicy ==
    (ev.kind = "voice") =>
        \A k \in 1 .. Len(out.sends) :
            LET a == AttemptsOf(out.sends, out.sends[k].lo)
            IN  /\ Len(a) <= 2
                /\ a[1].pm = "HTML"
                /\ (Len(a) = 2) => (~a[1].ok /\ a[2].pm = "plain")
                /\ (Len(a) = 2 /\ ~a[2].ok /\ ev.arg.errReplyOk) =>
                       (out.errs = 1 /\ out.reply = "error")

\* C19. A free-text message that arrives while no action is pending is a
\* no-op: the table (mode, prompts, pending action) is unchanged, no prompt
\* is created and nothing is answered, for every text and every mode.
C19_IdleTextIsNoOp ==
    \A u \in Users :
        (ev.kind = "text" /\ PendingOf(pre, u) = <<>>) =>
            /\ db = pre
            /\ SameRecord(db, pre, u)
            /\ out = NoOut

\* A text ignored while a custom mode is selected and prompts are stored.
C19_Witness ==
    \E u \in Users :
        /\ ev.kind = "text"
        /\ PendingOf(pre, u) = <<>>
        /\ ModeOf(pre, u) = <<CustomMode(0)>>
        /\ Len(PromptsOf(pre, u)) = 2
        /\ db = pre

\* The last event was a voice message with a mode selected whose download,
\* transcription or rewriting call failed.
VoiceCallFailed(u) ==
    /\ ev.kind = "voice"
    /\ ModeOf(pre, u) # <<>>
    /\ ev.arg.failAt \in {"download", "transcribe", "llm"}

\* Exactly one error message, no result chunk, no exception, table unchanged.
OneErrorNotice ==
    /\ out.errs = 1
    /\ out.reply = "error"
    /\ out.sends = <<>>
    /\ out.raised = ""
    /\ db = pre

C16_NoHalfTransition ==
    \A i \in DOMAIN runs :
        (Len(runs) = 1 /\ runs[i].st = "failed") =>
            \/ SameRecord(db, pre, runs[i].u)
            \/ SameRecord(db, Handle(pre, runs[i].u, runs[i].e), runs[i].u)

\* C18. When two events of one user are handled with overlap and both
\* handlers have returned, the persisted record is the record one of the
\* two serial orders produces, the prompt count is at most
\* MAX_CUSTOM_PROMPTS and a custom mode is in bounds.
C18_OverlapIsSerial ==
    (Len(runs) = 2 /\ runs[1].st = "done" /\ runs[2].st = "done") =>
        LET u  == runs[1].u
            ab == Handle(Handle(pre, u, runs[1].e), u, runs[2].e)
            ba == Handle(Handle(pre, u, runs[2].e), u, runs[1].e)
        IN  /\ SameRecord(db, ab, u) \/ SameRecord(db, ba, u)
            /\ Len(PromptsOf(db, u)) <= MAX_CUSTOM_PROMPTS
            /\ \A j \in IntRange :
                   (ModeOf(db, u) = <<CustomMode(j)>>) =>
                       (0 <= j /\ j < Len(PromptsOf(db, u)))

\* C20. A voice message that arrived in mode Custom(i), overlapped by the
\* deletion of a prompt at an index <= i, is rewritten with the instruction
\* of the prompt the mode referenced on arrival or with the default
\* instruction, never with another prompt's instruction.
C20_VoiceKeepsItsPrompt ==
    \A v \in DOMAIN runs : \A w \in DOMAIN runs : \A i \in IntRange :
        (/\ runs[v].e.kind = "voice"
         /\ runs[v].st = "done"
         /\ runs[v].mode = <<CustomMode(i)>>
         /\ 0 <= i
         /\ i < Len(PromptsOf(runs[v].at, runs[v].u))
         /\ runs[w].e.kind = "callback"
         /\ Len(runs[w].e.arg) = 2
         /\ runs[w].e.arg[1] = "delete_confirm"
         /\ ParseInt(runs[w].e.arg[2]) <= i) =>
            /\ runs[v].llm # <<>>
            /\ \/ runs[v].llm[1].kind = "default"
               \/ /\ runs[v].llm[1].kind = "custom"
                  /\ runs[v].llm[1].text =
                         PromptsOf(runs[v].at, runs[v].u)[i + 1].prompt

\* C21. A use_custom:i or delete_confirm:i button rendered for the prompt
\* named N, pressed after intervening deletions and creations, either
\* selects / deletes a prompt named N or reports that the prompt was not
\* found and changes nothing; it never acts on another prompt.
C21_OldButtonActsOnItsPrompt ==
    \A u \in Users :
        (ev.kind = "old_button") =>
            LET N   == ev.arg.name[1]
                old == PromptsOf(pre, u)
            IN  IF ev.arg.data[1] = "use_custom"
                THEN \/ /\ out.reply = "custom_selected"
                        /\ \E j \in 0 .. (Len(old) - 1) :
                               /\ ModeOf(db, u) = <<CustomMode(j)>>
                               /\ old[j + 1].name = N
                        /\ PromptsOf(db, u) = old
                     \/ /\ out.reply = "not_found_retry"
                        /\ SameRecord(db, pre, u)
                ELSE \/ /\ out.reply \in {"deleted", "deleted_last"}
                        /\ \E j \in 0 .. (Len(old) - 1) :
                               /\ old[j + 1].name = N
                               /\ PromptsOf(db, u) = ListPop(old, j)
                     \/ /\ out.reply = "not_found"
                        /\ SameRecord(db, pre, u)

\* The delivered slices of log are the first chunks of a text of length n,
\* in order and once each.
ChunkPrefix(log, n) ==
    \A k \in 1 .. Len(log) :
        /\ log[k].lo = (k - 1) * MAX_LENGTH
        /\ log[k].hi = Min(k * MAX_LENGTH, n)

\* C22. Whatever send attempts succeed or fail, the chunks delivered during
\* the delivery of one result are a prefix c0..ck of its chunk sequence,
\* each delivered exactly once; a delivered chunk is never sent again.
C22_OrderedDeliveryOnce ==
    (ev.kind = "deliver") =>
        /\ ChunkPrefix(Delivered(out.sends), ev.arg.n)
        /\ \A j \in 1 .. Len(out.sends) : \A k \in 1 .. Len(out.sends) :
               (j < k /\ out.sends[j].ok) => out.sends[k].lo # out.sends[j].lo

====
